---- MODULE Spec2Model ----
(***************************************************************************)
(* Model of the archive extraction and flattening engine of                *)
(* src/extraction-tool.py (POSIX path semantics, Python >= 3.10).          *)
(*                                                                         *)
(* Strings are sequences of one-character strings, so that parsing a       *)
(* member name, taking a stem and a suffix, comparing names and testing    *)
(* a string prefix are computed as the library computes them.  A path is   *)
(* a sequence of parts, as in pathlib; the part <<"/">> is the root.       *)
(***************************************************************************)
EXTENDS Integers, Sequences, FiniteSets, TLC

\* ------------------------------------------------------------------------
\* Bounds of the model
\* ------------------------------------------------------------------------
\* number of files the input folder can hold
MaxArchives == 2
\* number of consecutive runs of the orchestrator on the same folder
MaxRuns == 2

\* ------------------------------------------------------------------------
\* Characters and strings
\* ------------------------------------------------------------------------
\* the characters used, in code point order
Ascii ==
  <<".", "/", "0", "1", "2", "3", "4", "5", "6", "7", "8", "9",
    "A", "B", "C", "D", "E", "F", "G", "H", "I", "J", "K", "L", "M",
    "N", "O", "P", "Q", "R", "S", "T", "U", "V", "W", "X", "Y", "Z", "_",
    "a", "b", "c", "d", "e", "f", "g", "h", "i", "j", "k", "l", "m",
    "n", "o", "p", "q", "r", "s", "t", "u", "v", "w", "x", "y", "z">>

Ord(c) == CHOOSE i \in 1..Len(Ascii) : Ascii[i] = c

\* str.lower() on one character: "A".."Z" are at 13..38, "a".."z" at 40..65
LowerChar(c) == IF Ord(c) \in 13..38 THEN Ascii[Ord(c) + 27] ELSE c

Lower(s) == [i \in 1..Len(s) |-> LowerChar(s[i])]

\* str.startswith / str.endswith
StartsWith(s, p) == Len(p) <= Len(s) /\ SubSeq(s, 1, Len(p)) = p

EndsWith(s, p) == Len(p) <= Len(s) /\ SubSeq(s, Len(s) - Len(p) + 1, Len(s)) = p

\* str < str: lexicographic by code point
RECURSIVE StrLess(_, _)
StrLess(s, t) ==
  IF s = <<>> THEN t # <<>>
  ELSE IF t = <<>> THEN FALSE
  ELSE IF Head(s) = Head(t) THEN StrLess(Tail(s), Tail(t))
  ELSE Ord(Head(s)) < Ord(Head(t))

\* str(i) for a natural number
RECURSIVE IntToStr(_)
IntToStr(i) ==
  IF i < 10 THEN <<Ascii[i + 3]>>
  ELSE IntToStr(i \div 10) \o <<Ascii[(i % 10) + 3]>>

\* str.rfind("."), 1-based, 0 when absent
RECURSIVE RFindDot(_, _)
RFindDot(s, i) ==
  IF i = 0 THEN 0
  ELSE IF s[i] = "." THEN i
  ELSE RFindDot(s, i - 1)

\* ------------------------------------------------------------------------
\* pathlib (PurePosixPath)
\* ------------------------------------------------------------------------
RootPart == <<"/">>
DotDot == <<".", ".">>
Dot == <<".">>

\* str.split("/")
RECURSIVE Split(_)
Split(s) ==
  IF s = <<>> THEN << <<>> >>
  ELSE LET r == Split(Tail(s))
       IN IF Head(s) = "/" THEN << <<>> >> \o r
          ELSE << <<Head(s)>> \o Head(r) >> \o Tail(r)

\* Path(s).parts: the root when s starts with "/", then the segments that
\* are neither empty nor "." (".." is kept)
PathParts(s) ==
  LET segs == SelectSeq(Split(s), LAMBDA x : x # <<>> /\ x # Dot)
  IN IF s # <<>> /\ s[1] = "/" THEN <<RootPart>> \o segs ELSE segs

\* Path(s).name: the last part, "" when there is none but the root
PartsName(parts) ==
  IF parts = <<>> \/ parts[Len(parts)] = RootPart THEN <<>>
  ELSE parts[Len(parts)]

\* base.joinpath(*parts): an absolute part discards everything before it
RECURSIVE JoinPath(_, _)
JoinPath(base, parts) ==
  IF parts = <<>> THEN base
  ELSE IF Head(parts) = RootPart THEN JoinPath(<<RootPart>>, Tail(parts))
  ELSE JoinPath(Append(base, Head(parts)), Tail(parts))

\* str(path) of an absolute path
RECURSIVE JoinSegs(_)
JoinSegs(segs) ==
  IF segs = <<>> THEN <<>> ELSE <<"/">> \o Head(segs) \o JoinSegs(Tail(segs))

Str(path) == IF Len(path) = 1 THEN <<"/">> ELSE JoinSegs(Tail(path))

\* Path.resolve() of an absolute path in a tree without directory links:
\* ".." steps to the parent, and stays at the root
RECURSIVE ResolveFrom(_, _)
ResolveFrom(acc, rest) ==
  IF rest = <<>> THEN acc
  ELSE IF Head(rest) = DotDot
       THEN ResolveFrom(IF Len(acc) > 1 THEN SubSeq(acc, 1, Len(acc) - 1) ELSE acc,
                        Tail(rest))
       ELSE ResolveFrom(Append(acc, Head(rest)), Tail(rest))

Resolve(path) == ResolveFrom(<<RootPart>>, Tail(path))

\* Path.parent
Parent(path) == IF Len(path) > 1 THEN SubSeq(path, 1, Len(path) - 1) ELSE path

\* Path.suffix and Path.stem of a name
Suffix(name) ==
  LET i == RFindDot(name, Len(name))
  IN IF 1 < i /\ i < Len(name) THEN SubSeq(name, i, Len(name)) ELSE <<>>

Stem(name) ==
  LET i == RFindDot(name, Len(name))
  IN IF 1 < i /\ i < Len(name) THEN SubSeq(name, 1, i - 1) ELSE name

\* Path.with_name
WithName(path, name) == Append(Parent(path), name)

\* p is q or below q (both resolved)
IsUnder(p, q) == Len(q) <= Len(p) /\ SubSeq(p, 1, Len(q)) = q

\* Path < Path: the parts compared as a tuple of strings
RECURSIVE PathLess(_, _)
PathLess(p, q) ==
  IF p = <<>> THEN q # <<>>
  ELSE IF q = <<>> THEN FALSE
  ELSE IF Head(p) = Head(q) THEN PathLess(Tail(p), Tail(q))
  ELSE StrLess(Head(p), Head(q))

\* ------------------------------------------------------------------------
\* Program constants
\* ------------------------------------------------------------------------
UNARCHIVED_DIRNAME == <<"u", "n", "a", "r", "c", "h", "i", "v", "e", "d">>

OVERWRITE_EXISTING == FALSE

\* ------------------------------------------------------------------------
\* The filesystem: resolved absolute path -> [kind, data]
\*   kind "dir", "file", "live" (symbolic link to an existing file outside
\*   the trees of the model) or "dead" (symbolic link whose target and
\*   target directory do not exist); data identifies the write that
\*   produced the entry (0 for directories)
\* ------------------------------------------------------------------------
DirEntry == [kind |-> "dir", data |-> 0]

\* Path.exists(): follows links, so a dangling link does not exist
Exists(f, path) ==
  LET c == Resolve(path) IN c \in DOMAIN f /\ f[c].kind # "dead"

\* Path.mkdir(parents=True, exist_ok=True): creates the missing ancestors
\* top-down; raises when a component is there and is not a directory
RECURSIVE MkdirFrom(_, _, _)
MkdirFrom(f, c, n) ==
  IF n > Len(c) THEN [ok |-> TRUE, fs |-> f]
  ELSE LET q == SubSeq(c, 1, n)
       IN IF q \in DOMAIN f
          THEN IF f[q].kind = "dir" THEN MkdirFrom(f, c, n + 1)
               ELSE [ok |-> FALSE, fs |-> f]
          ELSE MkdirFrom((q :> DirEntry) @@ f, c, n + 1)

MkdirP(f, path) == MkdirFrom(f, Resolve(path), 1)

\* open(target, "wb"): creates or truncates the file; raises on a directory
\* and on a dangling link (its target directory is missing); writes through
\* a live link, which leaves the link in place
OpenWb(f, path, data) ==
  LET c == Resolve(path)
  IN IF c \notin DOMAIN f
     THEN [ok |-> TRUE, fs |-> (c :> [kind |-> "file", data |-> data]) @@ f]
     ELSE IF f[c].kind = "file"
     THEN [ok |-> TRUE, fs |-> [f EXCEPT ![c] = [kind |-> "file", data |-> data]]]
     ELSE IF f[c].kind = "live" THEN [ok |-> TRUE, fs |-> f]
     ELSE [ok |-> FALSE, fs |-> f]

\* shutil.move(src, final) of a file or a link, scratch and destination on
\* one filesystem: os.rename, which replaces a file or a link at final;
\* when final is a directory the entry is moved into it under its own name
Move(f, final, name, kind, data) ==
  LET c == Resolve(final)
      e == [kind |-> kind, data |-> data]
  IN IF c \in DOMAIN f /\ f[c].kind = "dir"
     THEN IF Append(c, name) \in DOMAIN f
          THEN [ok |-> FALSE, fs |-> f]
          ELSE [ok |-> TRUE, fs |-> (Append(c, name) :> e) @@ f]
     ELSE [ok |-> TRUE, fs |-> (c :> e) @@ [q \in DOMAIN f \ {c} |-> f[q]]]

\* ------------------------------------------------------------------------
\* Helpers: safety and naming
\* ------------------------------------------------------------------------
\* resolve() never raises FileNotFoundError (strict=False), so the except
\* branch of lines 48-49 is never taken
safe_member_target(base, member_name) ==
  LET parts == SelectSeq(PathParts(member_name),
                         LAMBDA x : x # <<>> /\ x # Dot /\ x # DotDot)
      target == IF parts # <<>> THEN JoinPath(base, parts) ELSE base
      base_resolved == Resolve(base)
      target_resolved == Resolve(target)
  IN IF ~StartsWith(Str(target_resolved), Str(base_resolved))
     THEN JoinPath(base, PathParts(PartsName(PathParts(member_name))))
     ELSE target

RECURSIVE UniqueFrom(_, _, _)
UniqueFrom(f, path, i) ==
  LET name == PartsName(path)
      candidate == WithName(path, Stem(name) \o <<"_">> \o IntToStr(i) \o Suffix(name))
  IN IF ~Exists(f, candidate) THEN candidate ELSE UniqueFrom(f, path, i + 1)

unique_file(f, path) ==
  IF OVERWRITE_EXISTING \/ ~Exists(f, path) THEN path ELSE UniqueFrom(f, path, 1)

\* a record of the log of writes, and of the calls of safe_member_target
WriteRec(tag, target, final, kind, done) ==
  [run |-> tag.run, arc |-> tag.arc, via |-> tag.via, target |-> target,
   final |-> final, kind |-> kind, done |-> done]

CallRec(base, member, result) == [base |-> base, member |-> member, result |-> result]

\* sorted(src_root.rglob("*")): the entries of a tree in Path order
RECURSIVE SortedEntries(_)
SortedEntries(S) ==
  IF S = {} THEN <<>>
  ELSE LET m == CHOOSE x \in S : \A y \in S \ {x} : PathLess(x.rel, y.rel)
       IN <<m>> \o SortedEntries(S \ {m})

\* Path.is_dir() of a scratch entry: follows links
EntryIsDir(e) == e.kind \in {"dir", "ldir"}

\* One pass of the loop of merge_tree_flat over the entries left.
\*   st = [fs, n, log, left, err]: filesystem, files moved, log of writes,
\*   entries still in the scratch tree, exception raised
RECURSIVE MergeFrom(_, _, _, _)
MergeFrom(st, entries, dest_root, tag) ==
  IF entries = <<>> \/ st.err THEN st
  ELSE LET p == Head(entries)
           target == JoinPath(dest_root, p.rel)
       IN IF EntryIsDir(p)
          THEN LET m == MkdirP(st.fs, target)
               IN IF m.ok
                  THEN MergeFrom([st EXCEPT !.fs = m.fs], Tail(entries), dest_root, tag)
                  ELSE [st EXCEPT !.err = TRUE]
          ELSE LET m == MkdirP(st.fs, Parent(target))
               IN IF ~m.ok THEN [st EXCEPT !.err = TRUE]
                  ELSE LET final == unique_file(m.fs, target)
                           mv == Move(m.fs, final, PartsName(p.rel), p.kind,
                                      Len(st.log) + 1)
                       IN IF ~mv.ok THEN [st EXCEPT !.fs = m.fs, !.err = TRUE]
                          ELSE MergeFrom(
                                 [fs |-> mv.fs, n |-> st.n + 1,
                                  log |-> Append(st.log,
                                            WriteRec(tag, target, final, p.kind, TRUE)),
                                  left |-> st.left \ {p}, err |-> FALSE],
                                 Tail(entries), dest_root, tag)

\* merge_tree_flat(src_root, dest_root): the tree is the set of entries of
\* src_root; n is the value returned when err is FALSE
merge_tree_flat(f, log, tree, dest_root, tag) ==
  MergeFrom([fs |-> f, n |-> 0, log |-> log, left |-> tree, err |-> FALSE],
            SortedEntries(tree), dest_root, tag)

\* ------------------------------------------------------------------------
\* Format detection
\* ------------------------------------------------------------------------
is_zip(name) == Lower(Suffix(name)) = <<".", "z", "i", "p">>

is_7z(name) == Lower(Suffix(name)) = <<".", "7", "z">>

is_rar(name) == Lower(Suffix(name)) = <<".", "r", "a", "r">>

TarSuffixes ==
  { <<".", "t", "a", "r">>, <<".", "t", "a", "r", ".", "g", "z">>,
    <<".", "t", "g", "z">>, <<".", "t", "a", "r", ".", "b", "z", "2">>,
    <<".", "t", "b", "z", "2">>, <<".", "t", "a", "r", ".", "x", "z">>,
    <<".", "t", "x", "z">> }

is_tar_like(name) == \E e \in TarSuffixes : EndsWith(Lower(name), e)

ArchiveExts ==
  TarSuffixes \cup { <<".", "z", "i", "p">>, <<".", "7", "z">>, <<".", "r", "a", "r">> }

\* sorted(...) of file names of one directory
RECURSIVE SortedNames(_)
SortedNames(S) ==
  IF S = {} THEN <<>>
  ELSE LET m == CHOOSE x \in S : \A y \in S \ {x} : StrLess(x, y)
       IN <<m>> \o SortedNames(S \ {m})

\* archive_list(root): dir is the set of names of the regular files of root
archive_list(dir) ==
  SortedNames({n \in dir : \E e \in ArchiveExts : EndsWith(Lower(n), e)})

\* ------------------------------------------------------------------------
\* Extractors (in-process)
\*   st = [fs, n, log, calls, err]: filesystem, files written, log of
\*   writes, calls of safe_member_target, exception raised
\* ------------------------------------------------------------------------
\* the loop of extract_zip_flat from member i on; the data of member bad
\* cannot be opened (zf.open raises BadZipFile)
RECURSIVE ZipFrom(_, _, _, _, _, _)
ZipFrom(st, members, i, bad, dest, tag) ==
  IF i > Len(members) \/ st.err THEN st
  ELSE LET name == members[i].name
           target == safe_member_target(dest, name)
           called == st.calls \cup {CallRec(dest, name, target)}
       IN IF name = <<>> THEN ZipFrom(st, members, i + 1, bad, dest, tag)
          ELSE IF EndsWith(name, <<"/">>)
          THEN LET m == MkdirP(st.fs, target)
               IN IF m.ok
                  THEN ZipFrom([st EXCEPT !.fs = m.fs, !.calls = called],
                               members, i + 1, bad, dest, tag)
                  ELSE [st EXCEPT !.calls = called, !.err = TRUE]
          ELSE LET m == MkdirP(st.fs, Parent(target))
               IN IF ~m.ok THEN [st EXCEPT !.calls = called, !.err = TRUE]
                  ELSE LET final == unique_file(m.fs, target)
                           w == OpenWb(m.fs, final, Len(st.log) + 1)
                       IN IF i = bad \/ ~w.ok
                          THEN [st EXCEPT !.fs = m.fs, !.calls = called, !.err = TRUE]
                          ELSE ZipFrom(
                                 [fs |-> w.fs, n |-> st.n + 1,
                                  log |-> Append(st.log,
                                            WriteRec(tag, target, final, "file", TRUE)),
                                  calls |-> called, err |-> FALSE],
                                 members, i + 1, bad, dest, tag)

extract_zip_flat(f, log, calls, arc, dest, tag) ==
  ZipFrom([fs |-> f, n |-> 0, log |-> log, calls |-> calls, err |-> FALSE],
          arc.members, 1, arc.bad, dest, tag)

\* the loop of extract_tar_flat from member i on; reading the data of
\* member bad fails while it is copied, after the target has been created
RECURSIVE TarFrom(_, _, _, _, _, _)
TarFrom(st, members, i, bad, dest, tag) ==
  IF i > Len(members) \/ st.err THEN st
  ELSE LET name == members[i].name
           type == members[i].type
           target == safe_member_target(dest, name)
           called == st.calls \cup {CallRec(dest, name, target)}
       IN IF type \in {"sym", "lnk"} THEN TarFrom(st, members, i + 1, bad, dest, tag)
          ELSE IF type = "dir"
          THEN LET m == MkdirP(st.fs, target)
               IN IF m.ok
                  THEN TarFrom([st EXCEPT !.fs = m.fs, !.calls = called],
                               members, i + 1, bad, dest, tag)
                  ELSE [st EXCEPT !.calls = called, !.err = TRUE]
          ELSE IF type # "file" THEN TarFrom(st, members, i + 1, bad, dest, tag)
          ELSE LET m == MkdirP(st.fs, Parent(target))
               IN IF ~m.ok THEN [st EXCEPT !.calls = called, !.err = TRUE]
                  ELSE LET final == unique_file(m.fs, target)
                           w == OpenWb(m.fs, final, Len(st.log) + 1)
                       IN IF ~w.ok
                          THEN [st EXCEPT !.fs = m.fs, !.calls = called, !.err = TRUE]
                          ELSE IF i = bad
                          THEN [st EXCEPT !.fs = w.fs, !.calls = called, !.err = TRUE,
                                          !.log = Append(st.log,
                                             WriteRec(tag, target, final, "file", FALSE))]
                          ELSE TarFrom(
                                 [fs |-> w.fs, n |-> st.n + 1,
                                  log |-> Append(st.log,
                                            WriteRec(tag, target, final, "file", TRUE)),
                                  calls |-> called, err |-> FALSE],
                                 members, i + 1, bad, dest, tag)

extract_tar_flat(f, log, calls, arc, dest, tag) ==
  TarFrom([fs |-> f, n |-> 0, log |-> log, calls |-> calls, err |-> FALSE],
          arc.members, 1, arc.bad, dest, tag)

\* ------------------------------------------------------------------------
\* Inputs: the folder, its archives, the tools of the host
\* ------------------------------------------------------------------------
\* the input folder /r
Root == <<RootPart, <<"r">>>>

\* names used inside the archives
NameA == <<"a", ".", "t">>
NameD == <<"d">>
NameX == <<"x">>

Member(name, type) == [name |-> name, type |-> type]

Entry(rel, kind) == [rel |-> rel, kind |-> kind]

\* An archive file: the tail of its name (the whole name when bare), its
\* member records (read by the in-process zip and tar readers), the index of
\* the member whose data cannot be read (0: none), the tree an extraction
\* tool leaves in its output directory, and what such a tool does on it:
\* "exit0", "exit1", "exit2" (its exit code) or "raise" (it cannot be
\* launched); a decoding library extracts the tree on "exit0" and raises
\* otherwise.
Archive(ext, bare, members, bad, tree, tool) ==
  [ext |-> ext, bare |-> bare, members |-> members, bad |-> bad, tree |-> tree,
   tool |-> tool]

TreeAD == {Entry(<<NameA>>, "file"), Entry(<<NameD>>, "dir"),
           Entry(<<NameD, NameA>>, "file")}

Pool ==
  { \* member paths of "..", "/x/..", a directory, "", "d/./a.t", and an
    \* absolute path next to the destination
    Archive(<<".", "z", "i", "p">>, FALSE,
            <<Member(DotDot, "file"),
              Member(<<"/", "x", "/", ".", ".">>, "file"),
              Member(<<"d", "/">>, "dir"),
              Member(<<>>, "file"),
              Member(<<"d", "/", ".", "/", "a", ".", "t">>, "file"),
              Member(<<"/", "r", "/", "u", "n", "a", "r", "c", "h", "i", "v", "e",
                       "d", "2", "/", "x">>, "file")>>, 0,
            TreeAD, "exit0"),
    \* two members of one name, then a member that cannot be opened
    Archive(<<".", "Z", "I", "P">>, FALSE,
            <<Member(NameA, "file"), Member(<<".", ".", "/", "a", ".", "t">>, "file"),
              Member(NameD, "file")>>, 3,
            {Entry(<<NameA>>, "file")}, "exit2"),
    \* tar with a directory, links, a device and files
    Archive(<<".", "t", "a", "r", ".", "g", "z">>, FALSE,
            <<Member(NameD, "dir"), Member(<<"d", "/", "a", ".", "t">>, "file"),
              Member(<<"s">>, "sym"), Member(<<"h">>, "lnk"),
              Member(<<"o">>, "other"),
              Member(<<"/", "x", "/", "a", ".", "t">>, "file")>>, 0,
            TreeAD, "exit0"),
    \* tar whose second member cannot be copied to the end
    Archive(<<".", "t", "g", "z">>, FALSE,
            <<Member(NameX, "file"), Member(NameA, "file")>>, 2,
            {Entry(<<NameX>>, "file")}, "exit2"),
    \* 7z with a nested tree
    Archive(<<".", "7", "z">>, FALSE, <<>>, 0, TreeAD, "exit0"),
    \* 7z for which the tool cannot be run
    Archive(<<".", "7", "z">>, FALSE, <<>>, 0, {}, "raise"),
    \* a file named ".7z", on which the tools fail
    Archive(<<".", "7", "z">>, TRUE, <<>>, 0, {Entry(<<NameA>>, "file")}, "exit2"),
    \* rar extracted with a warning, holding a dangling link
    Archive(<<".", "r", "a", "r">>, FALSE, <<>>, 0,
            {Entry(<<NameA>>, "file"), Entry(<<NameX>>, "dead")}, "exit1"),
    \* rar holding a file named as the directory of the others, and links
    Archive(<<".", "R", "a", "r">>, FALSE, <<>>, 0,
            {Entry(<<NameD>>, "file"), Entry(<<<<"y">>>>, "live"),
             Entry(<<<<"z">>>>, "ldir")}, "exit0"),
    \* not an archive
    Archive(<<".", "t", "x", "t">>, FALSE, <<>>, 0, {}, "exit0") }

\* the first part of the name of the i-th file of the folder
Prefixes == <<<<"b">>, <<"a">>, <<"c">>, <<"B">>, <<"d">>>>

FileName(i, a) == IF a.bare THEN a.ext ELSE Prefixes[i] \o a.ext

\* the tools and libraries of a host
AllTools == {"7z", "bsdtar", "unrar", "unar", "py7zr", "rarfile"}

ToolConfigs ==
  { AllTools, {"bsdtar", "unrar"}, {"unrar", "unar", "py7zr"},
    {"unar", "rarfile"}, {"py7zr", "rarfile"} }

\* ------------------------------------------------------------------------
\* State
\* ------------------------------------------------------------------------
VARIABLES
  folder,         \* name of a file of the input folder -> its Archive
  tools,          \* the tools and libraries found on the host
  fs,             \* the filesystem outside the scratch directories
  tmpdirs,        \* scratch directory -> the entries of its tree
  made,           \* number of scratch directories created so far
  pc,             \* position of the orchestrator
  run,            \* number of runs started
  archives,       \* archive_list(root) of the current run
  idx,            \* index of the archive being processed
  success, failed, total_written,
  strategy,       \* the extraction strategy entered for the archive
  outcome,        \* what extract_archive_flat returns: [written, err]
  events,         \* callbacks and dispatches of the current run, in order
  writes,         \* log of the files written or moved, all runs
  calls,          \* the calls of safe_member_target made
  attempts,       \* the strategies entered for the archive, in order
  snap            \* the filesystem when the current run began

vars == <<folder, tools, fs, tmpdirs, made, pc, run, archives, idx, success,
          failed, total_written, strategy, outcome, events, writes, calls,
          attempts, snap>>

unarchived_dir == Append(Root, UNARCHIVED_DIRNAME)

Ev(t, k, n, w) == [t |-> t, k |-> k, n |-> n, w |-> w]

Outcome(written, err) == [written |-> written, err |-> err]

NoOutcome == Outcome(0, FALSE)

Init ==
  /\ \E S \in SUBSET (1..MaxArchives) : \E c \in [S -> Pool] :
       folder = [n \in {FileName(i, c[i]) : i \in S} |->
                   c[CHOOSE i \in S : FileName(i, c[i]) = n]]
  /\ tools \in ToolConfigs
  /\ fs = (<<RootPart>> :> DirEntry) @@ (Root :> DirEntry)
  /\ tmpdirs = <<>>
  /\ made = 0
  /\ pc = "idle"
  /\ run = 0
  /\ archives = <<>>
  /\ idx = 0
  /\ success = 0 /\ failed = 0 /\ total_written = 0
  /\ strategy = "none"
  /\ outcome = NoOutcome
  /\ events = <<>>
  /\ writes = <<>>
  /\ calls = {}
  /\ attempts = <<>>
  /\ snap = fs

\* ------------------------------------------------------------------------
\* extract_all_in_folder_flat
\* ------------------------------------------------------------------------
\* lines 322-340: no archive in the folder
BeginEmpty ==
  /\ pc = "idle" /\ run < MaxRuns
  /\ MkdirP(fs, unarchived_dir).ok
  /\ archive_list(DOMAIN folder) = <<>>
  /\ run' = run + 1
  /\ fs' = MkdirP(fs, unarchived_dir).fs
  /\ archives' = <<>>
  /\ events' = <<Ev("banner", 0, 0, 0), Ev("nofound", 0, 0, 0),
                 Ev("progress", 0, 0, 0), Ev("return", 0, 0, 0)>>
  /\ snap' = fs
  /\ idx' = 0 /\ success' = 0 /\ failed' = 0 /\ total_written' = 0
  /\ UNCHANGED <<folder, tools, tmpdirs, made, pc, strategy, outcome, writes,
                 calls, attempts>>

\* lines 322-345: archives found, the loop is entered
BeginFound ==
  /\ pc = "idle" /\ run < MaxRuns
  /\ MkdirP(fs, unarchived_dir).ok
  /\ archive_list(DOMAIN folder) # <<>>
  /\ run' = run + 1
  /\ fs' = MkdirP(fs, unarchived_dir).fs
  /\ archives' = archive_list(DOMAIN folder)
  /\ events' = <<Ev("banner", 0, 0, 0), Ev("found", 0, Len(archives'), 0)>>
  /\ idx' = 1 /\ success' = 0 /\ failed' = 0 /\ total_written' = 0
  /\ pc' = "dispatch"
  /\ snap' = fs
  /\ UNCHANGED <<folder, tools, tmpdirs, made, strategy, outcome, writes,
                 calls, attempts>>

\* ------------------------------------------------------------------------
\* extract_archive_flat
\* ------------------------------------------------------------------------
Clis == {"7z", "bsdtar", "unrar", "unar"}

Libs == {"py7zr", "rarfile"}

\* lines 286-310: the strategy the dispatch enters, "none" when it returns
\* (0, "No extractor available ...") or (0, "Unsupported archive type ...")
ChooseStrategy(name, t) ==
  IF is_7z(name) \/ is_rar(name)
  THEN IF "7z" \in t THEN "7z"
       ELSE IF "bsdtar" \in t THEN "bsdtar"
       ELSE IF is_rar(name) /\ "unrar" \in t THEN "unrar"
       ELSE IF is_rar(name) /\ "unar" \in t THEN "unar"
       ELSE IF is_7z(name) /\ "py7zr" \in t THEN "py7zr"
       ELSE IF is_rar(name) /\ "rarfile" \in t THEN "rarfile"
       ELSE "none"
  ELSE IF "7z" \in t THEN "7z"
       ELSE IF "bsdtar" \in t THEN "bsdtar"
       ELSE "none"

ExitCode(tool) == IF tool = "exit0" THEN 0 ELSE IF tool = "exit1" THEN 1 ELSE 2

\* an exit code policy without the exception made for unrar
ExitOkZeroOnly(s, rc) == rc = 0

\* lines 210, 222, 234, 246: the exit codes after which the tree is merged
ExitOk(s, rc) == IF s = "unrar" THEN rc \in {0, 1} ELSE rc = 0

\* a strategy that removes its scratch directory on the normal return only
StrategyExitOnReturnOnly(tmp, id, how) ==
  IF how = "return" THEN [d \in DOMAIN tmp \ {id} |-> tmp[d]] ELSE tmp

\* the try/finally of lines 207-215 (and 219-227, 231-239, 243-251, 257-262,
\* 268-273): shutil.rmtree(tmpdir, ignore_errors=True) runs however the try
\* block is left: how is "return", "fail" (early return on the exit code)
\* or "raise"
StrategyExit(tmp, id, how) == [d \in DOMAIN tmp \ {id} |-> tmp[d]]

Attempt(s, how, rc, moved) == [strategy |-> s, how |-> how, rc |-> rc, moved |-> moved]

CurName == archives[idx]

CurArc == folder[CurName]

CurTag(via) == [run |-> run, arc |-> idx, via |-> via]

\* Outcome of an in-process reader: lines 283, 285 and the handlers 311-316
Caught(r) == IF r.err THEN Outcome(0, TRUE) ELSE Outcome(r.n, FALSE)

\* line 282-283
ExtractZip ==
  /\ pc = "dispatch"
  /\ is_zip(CurName)
  /\ LET r == extract_zip_flat(fs, writes, calls, CurArc, unarchived_dir, CurTag("zip"))
     IN /\ fs' = r.fs
        /\ writes' = r.log
        /\ calls' = r.calls
        /\ outcome' = Caught(r)
  /\ events' = Append(events, Ev("dispatch", idx, 0, 0))
  /\ attempts' = <<>>
  /\ strategy' = "zip"
  /\ pc' = "report"
  /\ UNCHANGED <<folder, tools, tmpdirs, made, run, archives, idx, success,
                 failed, total_written, snap>>

\* line 284-285
ExtractTar ==
  /\ pc = "dispatch"
  /\ ~is_zip(CurName) /\ is_tar_like(CurName)
  /\ LET r == extract_tar_flat(fs, writes, calls, CurArc, unarchived_dir, CurTag("tar"))
     IN /\ fs' = r.fs
        /\ writes' = r.log
        /\ calls' = r.calls
        /\ outcome' = Caught(r)
  /\ events' = Append(events, Ev("dispatch", idx, 0, 0))
  /\ attempts' = <<>>
  /\ strategy' = "tar"
  /\ pc' = "report"
  /\ UNCHANGED <<folder, tools, tmpdirs, made, run, archives, idx, success,
                 failed, total_written, snap>>

\* lines 286-300, 306-309 and the mkdtemp of the strategy entered
EnterStrategy ==
  /\ pc = "dispatch"
  /\ ~is_zip(CurName) /\ ~is_tar_like(CurName)
  /\ ChooseStrategy(CurName, tools) # "none"
  /\ strategy' = ChooseStrategy(CurName, tools)
  /\ made' = made + 1
  /\ tmpdirs' = (made' :> {}) @@ tmpdirs
  /\ attempts' = <<Attempt(strategy', "running", 0, 0)>>
  /\ events' = Append(events, Ev("dispatch", idx, 0, 0))
  /\ pc' = "tool"
  /\ UNCHANGED <<folder, tools, fs, run, archives, idx, success, failed,
                 total_written, outcome, writes, calls, snap>>

\* lines 301-304 and 310
NoExtractor ==
  /\ pc = "dispatch"
  /\ ~is_zip(CurName) /\ ~is_tar_like(CurName)
  /\ ChooseStrategy(CurName, tools) = "none"
  /\ strategy' = "none"
  /\ attempts' = <<>>
  /\ outcome' = Outcome(0, TRUE)
  /\ events' = Append(events, Ev("dispatch", idx, 0, 0))
  /\ pc' = "report"
  /\ UNCHANGED <<folder, tools, fs, tmpdirs, made, run, archives, idx, success,
                 failed, total_written, writes, calls, snap>>

\* subprocess.run or extractall raises: the finally clause, then the
\* handler of line 315
ToolRaises ==
  /\ pc = "tool"
  /\ CurArc.tool = "raise" \/ (strategy \in Libs /\ CurArc.tool # "exit0")
  /\ tmpdirs' = StrategyExit(tmpdirs, made, "raise")
  /\ attempts' = <<Attempt(strategy, "raise", 0, 0)>>
  /\ outcome' = Outcome(0, TRUE)
  /\ pc' = "report"
  /\ UNCHANGED <<folder, tools, fs, made, run, archives, idx, success, failed,
                 total_written, strategy, events, writes, calls, snap>>

\* lines 210-211, 222-223, 234-235, 246-247: early return on the exit code
ToolFails ==
  /\ pc = "tool"
  /\ strategy \in Clis /\ CurArc.tool # "raise"
  /\ ~ExitOk(strategy, ExitCode(CurArc.tool))
  /\ tmpdirs' = StrategyExit([tmpdirs EXCEPT ![made] = CurArc.tree], made, "fail")
  /\ attempts' = <<Attempt(strategy, "fail", ExitCode(CurArc.tool), 0)>>
  /\ outcome' = Outcome(0, TRUE)
  /\ pc' = "report"
  /\ UNCHANGED <<folder, tools, fs, made, run, archives, idx, success, failed,
                 total_written, strategy, events, writes, calls, snap>>

\* the tool or the library has filled the scratch directory
ToolExtracts ==
  /\ pc = "tool"
  /\ \/ strategy \in Clis /\ CurArc.tool # "raise"
          /\ ExitOk(strategy, ExitCode(CurArc.tool))
     \/ strategy \in Libs /\ CurArc.tool = "exit0"
  /\ tmpdirs' = [tmpdirs EXCEPT ![made] = CurArc.tree]
  /\ attempts' = <<Attempt(strategy, "extracted", ExitCode(CurArc.tool), 0)>>
  /\ pc' = "merge"
  /\ UNCHANGED <<folder, tools, fs, made, run, archives, idx, success, failed,
                 total_written, strategy, outcome, events, writes, calls, snap>>

\* lines 212-215 (224-227, 236-239, 248-251, 260-262, 271-273):
\* merge_tree_flat, the finally clause, and the return or the handler of
\* line 315
Merge ==
  /\ pc = "merge"
  /\ LET r == merge_tree_flat(fs, writes, tmpdirs[made], unarchived_dir,
                              CurTag(strategy))
     IN /\ fs' = r.fs
        /\ writes' = r.log
        /\ tmpdirs' = StrategyExit([tmpdirs EXCEPT ![made] = r.left], made,
                                   IF r.err THEN "raise" ELSE "return")
        /\ attempts' = <<Attempt(strategy, IF r.err THEN "mergeraise" ELSE "return",
                                 attempts[1].rc, Len(r.log) - Len(writes))>>
        /\ outcome' = Caught(r)
  /\ pc' = "report"
  /\ UNCHANGED <<folder, tools, made, run, archives, idx, success, failed,
                 total_written, strategy, events, calls, snap>>

\* a loop that does not log a failure
ReportEventsSilentFailure(out, i, total) ==
  IF out.err THEN << Ev("progress", i, total, 0) >>
  ELSE << Ev("ok", i, out.written, 0), Ev("progress", i, total, 0) >>

\* a loop that reports progress before it logs the outcome
ReportEventsProgressFirst(out, i, total) ==
  << Ev("progress", i, total, 0),
     IF out.err THEN Ev("fail", i, 0, 0) ELSE Ev("ok", i, out.written, 0) >>

\* lines 349-356: the callbacks of one pass of the loop, in order
ReportEvents(out, i, total) ==
  << IF out.err THEN Ev("fail", i, 0, 0) ELSE Ev("ok", i, out.written, 0),
     Ev("progress", i, total, 0) >>

\* lines 349-356: the outcome is logged and counted, progress is reported
Report ==
  /\ pc = "report"
  /\ events' = events \o ReportEvents(outcome, idx, Len(archives))
  /\ failed' = IF outcome.err THEN failed + 1 ELSE failed
  /\ success' = IF outcome.err THEN success ELSE success + 1
  /\ total_written' = IF outcome.err THEN total_written
                      ELSE total_written + outcome.written
  /\ IF idx < Len(archives)
     THEN idx' = idx + 1 /\ pc' = "dispatch"
     ELSE idx' = idx /\ pc' = "summary"
  /\ UNCHANGED <<folder, tools, fs, tmpdirs, made, run, archives, strategy,
                 outcome, writes, calls, attempts, snap>>

\* lines 358-359
Finish ==
  /\ pc = "summary"
  /\ events' = events \o << Ev("summary", success, failed, total_written),
                            Ev("return", 0, 0, 0) >>
  /\ pc' = "idle"
  /\ UNCHANGED <<folder, tools, fs, tmpdirs, made, run, archives, idx, success,
                 failed, total_written, strategy, outcome, writes, calls,
                 attempts, snap>>

Next ==
  \/ BeginEmpty \/ BeginFound
  \/ ExtractZip \/ ExtractTar \/ EnterStrategy \/ NoExtractor
  \/ ToolRaises \/ ToolFails \/ ToolExtracts \/ Merge
  \/ Report \/ Finish

Spec == Init /\ [][Next]_vars

\* ------------------------------------------------------------------------
\* Properties
\* ------------------------------------------------------------------------
\* the writes of run r, in order
RunWrites(r) == SelectSeq(writes, LAMBDA w : w.run = r)

\* p is strictly below q
StrictlyUnder(p, q) == IsUnder(p, q) /\ p # q

\* C1 - PathSafety: every path returned by safe_member_target(base,
\* member_name) is base or a descendant of base, never a parent or a sibling.
C1_PathSafety ==
  \A c \in calls : IsUnder(Resolve(c.result), Resolve(c.base))

\* C2 - every file member of a zip or tar archive is written by the
\* in-process strategy at a path strictly inside DestinationRoot; no file
\* is created next to DestinationRoot in the input folder.
C2_WritesInsideDestination ==
  \A i \in 1..Len(writes) :
    writes[i].via \in {"zip", "tar"}
      => StrictlyUnder(Resolve(writes[i].final), unarchived_dir)

\* the strategies the fallback chain of the spec offers for an archive name
\* on a host with the tools t
Applicable(name, t) ==
  {s \in t : \/ s \in {"7z", "bsdtar"}
             \/ s \in {"unrar", "unar", "rarfile"} /\ is_rar(name)
             \/ s = "py7zr" /\ is_7z(name)}

\* C5 - Fallback chain: a 7z or rar archive is reported as failed only after
\* every available strategy has been attempted; when an earlier strategy
\* fails, the next available one is attempted.
C5_FallbackChain ==
  (pc = "report" /\ (is_7z(CurName) \/ is_rar(CurName)) /\ outcome.err)
    => \A s \in Applicable(CurName, tools) :
         \E i \in 1..Len(attempts) : attempts[i].strategy = s

\* C10 - Summary accuracy: in the summary line succeeded + failed is the
\* number of enumerated archives, and the files-written total is the number
\* of files the run wrote, those of archives reported as failed included.
C10_SummaryAccuracy ==
  \A i \in 1..Len(events) :
    events[i].t = "summary"
      => /\ events[i].k + events[i].n = Len(archives)
         /\ events[i].w = Len(RunWrites(run))

\* path with the suffix _k inserted before the extension of its name; the
\* path itself for k = 0
Suffixed(path, k) ==
  IF k = 0 THEN path
  ELSE WithName(path, Stem(PartsName(path)) \o <<"_">> \o IntToStr(k)
                        \o Suffix(PartsName(path)))

\* the positions in writes of the files of run r that resolved to target
\* tgt, in processing order
RECURSIVE Positions(_, _, _)
Positions(r, tgt, i) ==
  IF i > Len(writes) THEN <<>>
  ELSE IF writes[i].run = r /\ Resolve(writes[i].target) = Resolve(tgt)
       THEN <<i>> \o Positions(r, tgt, i + 1)
       ELSE Positions(r, tgt, i + 1)

\* none of the first n names of tgt is taken by a directory or by a file
\* written for another target
NamesFree(r, tgt, n) ==
  \A k \in 0..(n - 1) :
    LET q == Resolve(Suffixed(tgt, k))
    IN /\ ~(q \in DOMAIN fs /\ fs[q].kind = "dir")
       /\ \A j \in 1..Len(writes) :
            (writes[j].run = r /\ Resolve(writes[j].final) = q)
              => Resolve(writes[j].target) = Resolve(tgt)

\* C3 - Uniqueness: within one run no two written files share a final path;
\* in the first run (the destination is empty at its start) the N files
\* that resolve to one target path are written, in processing order, to the
\* unsuffixed name and to the names with the suffixes _1 .. _(N-1).
C3_Uniqueness ==
  /\ \A i, j \in 1..Len(writes) :
       (i < j /\ writes[i].run = writes[j].run)
         => Resolve(writes[i].final) # Resolve(writes[j].final)
  /\ \A i \in 1..Len(writes) :
       LET tgt == writes[i].target
           pos == Positions(1, tgt, 1)
       IN (writes[i].run = 1 /\ NamesFree(1, tgt, Len(pos)))
            => \A k \in 1..Len(pos) :
                 Resolve(writes[pos[k]].final) = Resolve(Suffixed(tgt, k - 1))

\* C4 - Idempotent re-run: a second run on the same folder leaves every
\* file of the first run at its path with its content, and adds files under
\* suffixed names only.
C4_IdempotentRerun ==
  run >= 2 =>
    /\ \A q \in DOMAIN snap : q \in DOMAIN fs /\ fs[q] = snap[q]
    /\ \A i \in 1..Len(writes) :
         writes[i].run = run
           => Resolve(writes[i].final) # Resolve(writes[i].target)

Returned == pc = "idle" /\ run >= 1

OutcomeLines == SelectSeq(events, LAMBDA e : e.t \in {"ok", "fail"})

Dispatches == SelectSeq(events, LAMBDA e : e.t = "dispatch")

Summaries == SelectSeq(events, LAMBDA e : e.t = "summary")

ProgressCalls == SelectSeq(events, LAMBDA e : e.t = "progress")

\* every enumerated archive is processed once, in sorted name order, with
\* one outcome line each in that order after the banner, and the run returns
RunComplete ==
  LET n == Len(archives)
  IN /\ \A i, j \in 1..n : i < j => StrLess(archives[i], archives[j])
     /\ events[1].t = "banner"
     /\ Len(Dispatches) = n /\ \A k \in 1..n : Dispatches[k].k = k
     /\ Len(OutcomeLines) = n /\ \A k \in 1..n : OutcomeLines[k].k = k
     /\ \A i, j \in 1..Len(events) :
          (events[i].t = "dispatch" /\ events[j].t \in {"ok", "fail"})
            => (i < j <=> events[i].k <= events[j].k)
     /\ events[Len(events)].t = "return"
     /\ \A i \in 1..(Len(events) - 1) : events[i].t # "return"

\* one summary line, after the outcome lines and right before the return
SummaryOnce ==
  /\ Len(Summaries) = 1
  /\ Len(events) >= 2
  /\ events[Len(events) - 1].t = "summary"

\* C7 (as stated) - for any set of archives and any outcomes, the run
\* processes every archive once in sorted order, logs one outcome line per
\* archive, then exactly one summary line, and returns.
C7_AlwaysOneSummary == Returned => (RunComplete /\ SummaryOnce)

\* C7 (amended) - a per-archive failure never aborts the run: every archive
\* is processed once in sorted order with one outcome line each, and the run
\* returns; the summary line is logged exactly once when at least one
\* archive was enumerated, and not at all when none was.
C7_FailureNeverAborts ==
  Returned =>
    /\ RunComplete
    /\ IF Len(archives) > 0 THEN SummaryOnce ELSE Len(Summaries) = 0

\* a run of two archives has returned after the first failed and the second
\* succeeded
C7_Witness ==
  /\ Returned
  /\ Len(archives) = 2
  /\ Len(OutcomeLines) = 2
  /\ OutcomeLines[1].t = "fail"
  /\ OutcomeLines[2].t = "ok"

\* C8 - Progress callback sequence: with no archive, progress_cb is called
\* once, with (0, 0); with total > 0 archives it is called total times, the
\* k-th call being (k, total), after the outcome of archive k is logged and
\* before archive k + 1 is dispatched.
C8_ProgressSequence ==
  LET total == Len(archives)
  IN /\ \A k \in 1..Len(ProgressCalls) :
          IF total = 0
          THEN k = 1 /\ ProgressCalls[k].k = 0 /\ ProgressCalls[k].n = 0
          ELSE k <= total /\ ProgressCalls[k].k = k /\ ProgressCalls[k].n = total
     /\ Returned => Len(ProgressCalls) = (IF total = 0 THEN 1 ELSE total)
     /\ \A i \in 1..Len(events) :
          (events[i].t = "progress" /\ total > 0)
            => /\ \E j \in 1..(i - 1) :
                    events[j].t \in {"ok", "fail"} /\ events[j].k = events[i].k
               /\ \A j \in 1..Len(events) :
                    (events[j].t = "dispatch" /\ events[j].k = events[i].k + 1)
                      => i < j

\* a run of two archives has returned with two progress calls
C8_Witness ==
  /\ Returned
  /\ Len(archives) = 2
  /\ Len(ProgressCalls) = 2
  /\ ProgressCalls[2].k = 2

\* an external tool has been run on the archive and has given an exit code
AfterCli ==
  /\ pc = "report"
  /\ strategy \in Clis
  /\ attempts # <<>>
  /\ attempts[1].how # "raise"

\* the exit codes the spec accepts
AcceptedExit(s, rc) == rc = 0 \/ (s = "unrar" /\ rc = 1)

\* merge_tree_flat was called on the scratch tree
Flattened == attempts[1].how \in {"return", "mergeraise"}

\* no file of the current archive has been written or moved
NothingMoved == \A i \in 1..Len(writes) : ~(writes[i].run = run /\ writes[i].arc = idx)

\* C9 (as stated) - after an external tool invocation the tree is flattened
\* and the outcome is a success if and only if the exit code is 0, or 1 for
\* unrar; otherwise the outcome is (0, error) and nothing is moved.
C9_SuccessIffExitCode ==
  AfterCli =>
    /\ ~outcome.err <=> AcceptedExit(strategy, attempts[1].rc)
    /\ ~outcome.err => Flattened
    /\ outcome.err => (outcome.written = 0 /\ NothingMoved)

\* C9 (amended) - after an external tool invocation the tree is flattened if
\* and only if the exit code is 0, or 1 for unrar; the outcome is a success
\* if and only if, in addition, flattening does not raise; after any other
\* exit code the outcome is (0, error) and nothing is moved; when flattening
\* raises the outcome is (0, error) too.
C9_ExitCodePolicy ==
  AfterCli =>
    /\ Flattened <=> AcceptedExit(strategy, attempts[1].rc)
    /\ ~outcome.err <=> (AcceptedExit(strategy, attempts[1].rc)
                           /\ attempts[1].how = "return")
    /\ ~AcceptedExit(strategy, attempts[1].rc)
         => (outcome = Outcome(0, TRUE) /\ NothingMoved)
    /\ outcome.err => outcome.written = 0

\* unrar has exited with code 1 and its tree has been flattened
C9_Witness ==
  /\ AfterCli
  /\ strategy = "unrar"
  /\ attempts[1].rc = 1
  /\ ~outcome.err
  /\ outcome.written > 0

\* the strategies that flatten a scratch tree with merge_tree_flat
Flatteners == Clis \cup Libs

\* the regular files of a scratch tree
RegularFiles(tree) == {e \in tree : e.kind = "file"}

\* C11 - TreeFlattener link skip: merge_tree_flat moves only regular files;
\* a symbolic link of the scratch tree (to a file, to a directory, or
\* dangling) is neither moved into the destination nor counted, so no link
\* appears under DestinationRoot and the count returned is the number of
\* regular files of the tree.
C11_LinkSkip ==
  /\ \A i \in 1..Len(writes) :
       writes[i].via \in Flatteners => writes[i].kind = "file"
  /\ \A q \in DOMAIN fs :
       IsUnder(q, unarchived_dir) => fs[q].kind \in {"dir", "file"}
  /\ (pc = "report" /\ attempts # <<>> /\ attempts[1].how = "return")
       => attempts[1].moved = Cardinality(RegularFiles(CurArc.tree))

====
